---- MODULE Spec2Model ----
(***************************************************************************)
(* Streak engine of the habit tracker (src/src/app/page.tsx, Home):        *)
(* local date identifiers, Monday week identifiers, the current streak     *)
(* with its one-period grace window, and the rolling window of boxes.      *)
(*                                                                         *)
(* A Date is the integer number of hours since 1970-01-01T00:00Z.  The     *)
(* local fields of a Date are read through the runtime's timezone offset   *)
(* tz (local = UTC + tz hours, a fixed offset).  A string is a sequence of *)
(* one-character strings, so "2024-03-14" is                               *)
(* <<"2","0","2","4","-","0","3","-","1","4">>.                            *)
(***************************************************************************)
EXTENDS Integers, Sequences, FiniteSets, TLC

VARIABLES
    now,             \* the runtime clock: what `new Date()` returns
    tz,              \* the runtime's local timezone offset, in hours
    frequency,       \* streak.frequency of the rendered habit
    completedDates,  \* streak.completedDates of the rendered habit
    date,            \* the Date object handed to the date helpers
    op,              \* the operation applied last
    ret              \* what it returned

\* the state of the Home component, of the login page, and of the backend
VARIABLES
    user,            \* useState user: the signed-in user, or NoUser
    streaks,         \* useState streaks: the local list of habits
    isLoading,       \* useState isLoading
    isAdding,        \* useState isAdding
    isAuthChecking,  \* useState isAuthChecking
    inputValue,      \* useState inputValue: the name typed for a new habit
    selFrequency,    \* useState frequency: the cadence selected for it
    rendered,        \* what the last render computed and the handlers close over
    loadDue,         \* the effect on [user, loadStreaks] has yet to run
    loadReq,         \* the select of loadStreaks in flight
    addReq,          \* the insert of handleAddStreak in flight
    addTimer,        \* the 400 ms timer of handleAddStreak
    syncReq,         \* the update of toggleDate in flight
    db,              \* the rows of the backend's streaks table
    session,         \* the backend's auth session of this browser
    page,            \* the page component that is mounted
    pushed,          \* the router.push that has been issued and not yet followed
    authCheck,       \* the getSession of the mounted page's effect
    events,          \* auth events not yet delivered to the mounted page
    loginIsLoading,  \* useState isLoading of LoginPage
    ticks            \* how often the clock has advanced

engineVars == <<frequency, completedDates, date, op, ret>>
habitVars == <<streaks, isLoading, isAdding, inputValue, selFrequency, rendered,
               loadDue, loadReq, addReq, addTimer, syncReq, db, ticks>>
authVars == <<user, isAuthChecking, session, page, pushed, authCheck, events,
              loginIsLoading>>

vars == <<now, tz, engineVars, habitVars, authVars>>

(***************************************************************************)
(* Bounds of the model.                                                    *)
(***************************************************************************)
\* `now` ranges over this many UTC days, every second day from FirstDay on
NumDays == 8
\* completion sets are drawn from the identifiers of the current period
\* and the MaxBack periods before it
MaxBack == 3
\* the clock of the habit list advances at most this often
MaxTicks == 1
\* at most this many habits are created
MaxAdds == 1

(***************************************************************************)
(* ECMAScript builtins used by the source.                                 *)
(***************************************************************************)
\* MakeDay: day number of a (year, month 1..12, day) triple; linear in the
\* day, so a day below 1 or past the month's end rolls over as setDate does
DaysFromCivil(y, m, d) ==
    LET yy  == IF m <= 2 THEN y - 1 ELSE y
        era == yy \div 400
        yoe == yy - era * 400
        mp  == IF m > 2 THEN m - 3 ELSE m + 9
        doy == (153 * mp + 2) \div 5 + d - 1
        doe == yoe * 365 + yoe \div 4 - yoe \div 100 + doy
    IN  era * 146097 + doe - 719468

\* YearFromTime / MonthFromTime / DateFromTime of a day number
CivilFromDays(z) ==
    LET zz  == z + 719468
        era == zz \div 146097
        doe == zz - era * 146097
        yoe == (doe - doe \div 1460 + doe \div 36524 - doe \div 146096) \div 365
        doy == doe - (365 * yoe + yoe \div 4 - yoe \div 100)
        mp  == (5 * doy + 2) \div 153
        d   == doy - (153 * mp + 2) \div 5 + 1
        m   == IF mp < 10 THEN mp + 3 ELSE mp - 9
        y   == yoe + era * 400 + (IF m <= 2 THEN 1 ELSE 0)
    IN  [year |-> y, month |-> m, day |-> d]

\* LocalTime(t) split into its day number and hour of day
LocalDay(t) == (t + tz) \div 24
LocalHour(t) == (t + tz) % 24

getFullYear(t) == CivilFromDays(LocalDay(t)).year
\* months are 0-based in the Date API
getMonth(t) == CivilFromDays(LocalDay(t)).month - 1
getDate(t) == CivilFromDays(LocalDay(t)).day
\* 0 = Sunday .. 6 = Saturday; day number 0 was a Thursday
getDay(t) == (LocalDay(t) + 4) % 7

\* Date.prototype.setDate(n): the local day-of-month becomes n, the local
\* year, month and time of day are kept, and the result is normalised
setDate(t, n) ==
    DaysFromCivil(getFullYear(t), getMonth(t) + 1, n) * 24 + LocalHour(t) - tz

\* Date.prototype.setHours(0, 0, 0, 0): local midnight of the same local day
setHours0(t) == LocalDay(t) * 24 - tz

\* new Date(year, monthIndex, day): local midnight of that local date
NewDateLocal(year, monthIndex, day) ==
    DaysFromCivil(year, monthIndex + 1, day) * 24 - tz

\* String(n) of a non-negative integer
Digit(n) == <<"0", "1", "2", "3", "4", "5", "6", "7", "8", "9">>[n + 1]

RECURSIVE String(_)
String(n) == IF n < 10 THEN <<Digit(n)>> ELSE String(n \div 10) \o <<Digit(n % 10)>>

\* String.prototype.padStart(len, "0")
RECURSIVE padStart(_, _)
padStart(s, len) == IF Len(s) >= len THEN s ELSE padStart(<<"0">> \o s, len)

\* Number(s) of a string of decimal digits
DigitValue(c) == CHOOSE n \in 0..9 : Digit(n) = c

RECURSIVE Number(_)
Number(s) ==
    IF Len(s) = 0 THEN 0
    ELSE Number(SubSeq(s, 1, Len(s) - 1)) * 10 + DigitValue(s[Len(s)])

\* String.prototype.split("-")
RECURSIVE split(_)
split(s) ==
    IF \A i \in 1..Len(s) : s[i] # "-" THEN <<s>>
    ELSE LET i == CHOOSE k \in 1..Len(s) :
                      s[k] = "-" /\ \A j \in 1..(k - 1) : s[j] # "-"
         IN  <<SubSeq(s, 1, i - 1)>> \o split(SubSeq(s, i + 1, Len(s)))

\* the template literal `${year}-${month}-${day}`
Template(year, month, day) == year \o <<"-">> \o month \o <<"-">> \o day

\* Date.prototype.toISOString().split("T")[0]: the UTC calendar day
toISODate(t) ==
    LET c == CivilFromDays(t \div 24)
    IN  Template(padStart(String(c.year), 4), padStart(String(c.month), 2),
                 padStart(String(c.day), 2))

\* new Date("YYYY-MM-DD"): a date-only string is parsed as UTC midnight
NewDateParse(s) ==
    LET p == split(s)
    IN  DaysFromCivil(Number(p[1]), Number(p[2]), Number(p[3])) * 24

(***************************************************************************)
(* Identifier helpers of the current revision of Home.                     *)
(***************************************************************************)
getLocalDateString(t) ==
    LET year  == String(getFullYear(t))
        month == padStart(String(getMonth(t) + 1), 2)
        day   == padStart(String(getDate(t)), 2)
    IN  Template(year, month, day)

\* a week that starts on Sunday
getWeekStart_sundayFirst(t) ==
    LET day  == getDay(t)
        diff == 0 - day
    IN  setHours0(setDate(t, getDate(t) + diff))

\* only Sunday is moved back to its Monday, the other days to their Sunday
getWeekStart_sundayOnly(t) ==
    LET day  == getDay(t)
        diff == IF day = 0 THEN -6 ELSE 0 - day
    IN  setHours0(setDate(t, getDate(t) + diff))

getWeekStart(t) ==
    LET day  == getDay(t)
        diff == IF day = 0 THEN -6 ELSE 1 - day
    IN  setHours0(setDate(t, getDate(t) + diff))

getWeekIdentifier(t) == getLocalDateString(getWeekStart(t))

\* the identifier parsed by new Date(string), that is as UTC midnight
getWeekDates_utcParse(weekIdentifier) ==
    LET start == NewDateParse(weekIdentifier)
    IN  [start |-> start, end |-> setDate(start, getDate(start) + 6)]

getWeekDates(weekIdentifier) ==
    LET p     == split(weekIdentifier)
        start == NewDateLocal(Number(p[1]), Number(p[2]) - 1, Number(p[3]))
    IN  [start |-> start, end |-> setDate(start, getDate(start) + 6)]

\* the daily box's identifier parsed by new Date(string), as UTC midnight
parseBoxIdentifier_utcParse(identifier) == NewDateParse(identifier)

\* the daily box's label: its identifier split and handed to
\* new Date(year, month - 1, day)
parseBoxIdentifier(identifier) ==
    LET p == split(identifier)
    IN  NewDateLocal(Number(p[1]), Number(p[2]) - 1, Number(p[3]))

\* the has() calls of the weekly backward walk: checkDate is the cursor,
\* streak the count so far, walk the identifiers looked up so far
RECURSIVE weeklyWalk(_, _, _, _)
weeklyWalk(completed, checkDate, streak, walk) ==
    LET weekId == getWeekIdentifier(checkDate)
    IN  IF weekId \in completed
        THEN weeklyWalk(completed, setDate(checkDate, getDate(checkDate) - 7),
                        streak + 1, Append(walk, weekId))
        ELSE [streak |-> streak, walk |-> Append(walk, weekId)]

\* the daily walk looking up one more day after the first absent one
RECURSIVE dailyWalk_lookPast(_, _, _, _)
dailyWalk_lookPast(completed, checkDate, streak, walk) ==
    LET dateString == getLocalDateString(checkDate)
        before     == setDate(checkDate, getDate(checkDate) - 1)
    IN  IF dateString \in completed
        THEN dailyWalk_lookPast(completed, before, streak + 1, Append(walk, dateString))
        ELSE [streak |-> streak,
              walk |-> walk \o <<dateString, getLocalDateString(before)>>]

\* the daily walk formatting its cursor through toISOString
RECURSIVE dailyWalk_utc(_, _, _, _)
dailyWalk_utc(completed, checkDate, streak, walk) ==
    LET dateString == toISODate(checkDate)
    IN  IF dateString \in completed
        THEN dailyWalk_utc(completed, setDate(checkDate, getDate(checkDate) - 1),
                           streak + 1, Append(walk, dateString))
        ELSE [streak |-> streak, walk |-> Append(walk, dateString)]

\* the daily walk counting the day at which it stops
RECURSIVE dailyWalk_countsStop(_, _, _, _)
dailyWalk_countsStop(completed, checkDate, streak, walk) ==
    LET dateString == getLocalDateString(checkDate)
    IN  IF dateString \in completed
        THEN dailyWalk_countsStop(completed, setDate(checkDate, getDate(checkDate) - 1),
                                  streak + 1, Append(walk, dateString))
        ELSE [streak |-> streak + 1, walk |-> Append(walk, dateString)]

RECURSIVE dailyWalk(_, _, _, _)
dailyWalk(completed, checkDate, streak, walk) ==
    LET dateString == getLocalDateString(checkDate)
    IN  IF dateString \in completed
        THEN dailyWalk(completed, setDate(checkDate, getDate(checkDate) - 1),
                       streak + 1, Append(walk, dateString))
        ELSE [streak |-> streak, walk |-> Append(walk, dateString)]

\* getStreakCount is modelled with its lookups recorded: guard holds the
\* two identifiers of the grace check, walk those of the backward walk
NoStreak(guard) == [streak |-> 0, guard |-> guard, walk |-> <<>>]

\* the weekly branch
getStreakWeekly(completed) ==
    LET today        == now
        currentWeek  == getWeekIdentifier(today)
        lastWeekDate == setDate(today, getDate(today) - 7)
        lastWeek     == getWeekIdentifier(lastWeekDate)
        checkWeek    == IF currentWeek \in completed THEN currentWeek ELSE lastWeek
        guard        == <<currentWeek, lastWeek>>
    IN  IF currentWeek \notin completed /\ lastWeek \notin completed
        THEN NoStreak(guard)
        ELSE [guard |-> guard] @@
             weeklyWalk(completed, NewDateParse(checkWeek), 0, <<>>)

\* the daily branch with the grace window widened to two days
getStreakDaily_grace2(completed) ==
    LET today     == setHours0(now)
        yesterday == setDate(today, getDate(today) - 1)
        before    == setDate(today, getDate(today) - 2)
        guard     == <<getLocalDateString(today), getLocalDateString(yesterday)>>
    IN  IF guard[1] \in completed
        THEN [guard |-> guard] @@ dailyWalk(completed, today, 0, <<>>)
        ELSE IF guard[2] \in completed
        THEN [guard |-> guard] @@ dailyWalk(completed, yesterday, 0, <<>>)
        ELSE [guard |-> guard] @@ dailyWalk(completed, before, 0, <<>>)

\* the daily branch without the grace window
getStreakDaily_noGrace(completed) ==
    LET today     == setHours0(now)
        yesterday == setDate(today, getDate(today) - 1)
        guard     == <<getLocalDateString(today), getLocalDateString(yesterday)>>
    IN  IF guard[1] \in completed
        THEN [guard |-> guard] @@ dailyWalk(completed, today, 0, <<>>)
        ELSE NoStreak(guard)

\* the daily branch
getStreakDaily(completed) ==
    LET today           == setHours0(now)
        yesterday       == setDate(today, getDate(today) - 1)
        todayString     == getLocalDateString(today)
        yesterdayString == getLocalDateString(yesterday)
        guard           == <<todayString, yesterdayString>>
    IN  IF todayString \in completed
        THEN [guard |-> guard] @@ dailyWalk(completed, today, 0, <<>>)
        ELSE IF yesterdayString \in completed
        THEN [guard |-> guard] @@ dailyWalk(completed, yesterday, 0, <<>>)
        ELSE NoStreak(guard)

getStreakTrace(completed, freq) ==
    IF Cardinality(completed) = 0 THEN NoStreak(<<>>)
    ELSE IF freq = "weekly" THEN getStreakWeekly(completed)
    ELSE getStreakDaily(completed)

getStreakCount(completed, freq) == getStreakTrace(completed, freq).streak

\* the boxes run from i = WindowBack down to i = 0
WindowBack == 6

getDateBoxes ==
    LET today == now
    IN  [k \in 1..(WindowBack + 1) |->
            getLocalDateString(setDate(today, getDate(today) - (WindowBack + 1 - k)))]

\* the weekly window stepping back one day per box instead of seven
getWeekBoxes_dayStep ==
    LET today == now
    IN  [k \in 1..(WindowBack + 1) |->
            getWeekIdentifier(setDate(today, getDate(today) - (WindowBack + 1 - k)))]

getWeekBoxes ==
    LET today == now
    IN  [k \in 1..(WindowBack + 1) |->
            getWeekIdentifier(setDate(today, getDate(today) - (WindowBack + 1 - k) * 7))]

todayString == getLocalDateString(now)

\* the identifier of the one box that can be toggled
currentIdentifier(freq) ==
    IF freq = "weekly" THEN getWeekIdentifier(now) ELSE todayString

(***************************************************************************)
(* The daily helpers of the earlier revision of Home (src/unnamed/part_002)*)
(* which format through toISOString.                                       *)
(***************************************************************************)
RECURSIVE dailyWalkISO(_, _, _, _)
dailyWalkISO(completed, checkDate, streak, walk) ==
    LET dateString == toISODate(checkDate)
    IN  IF dateString \in completed
        THEN dailyWalkISO(completed, setDate(checkDate, getDate(checkDate) - 1),
                          streak + 1, Append(walk, dateString))
        ELSE [streak |-> streak, walk |-> Append(walk, dateString)]

getStreakTraceISO(completed) ==
    IF Cardinality(completed) = 0
    THEN [streak |-> 0, guard |-> <<>>, walk |-> <<>>]
    ELSE LET today           == setHours0(now)
             yesterday       == setDate(today, getDate(today) - 1)
             todayStr        == toISODate(today)
             yesterdayString == toISODate(yesterday)
             guard           == <<todayStr, yesterdayString>>
         IN  IF todayStr \in completed
             THEN [guard |-> guard] @@ dailyWalkISO(completed, today, 0, <<>>)
             ELSE IF yesterdayString \in completed
             THEN [guard |-> guard] @@ dailyWalkISO(completed, yesterday, 0, <<>>)
             ELSE [streak |-> 0, guard |-> guard, walk |-> <<>>]

getDateBoxesISO ==
    LET today == now
    IN  [k \in 1..(WindowBack + 1) |->
            toISODate(setDate(today, getDate(today) - (WindowBack + 1 - k)))]

todayStringISO == toISODate(now)

(***************************************************************************)
(* The inputs the model draws.                                             *)
(***************************************************************************)
\* 2024-02-29, a Thursday: the days drawn cross the end of February, meet
\* every day of the week and include 2024-03-14
FirstDay == DaysFromCivil(2024, 2, 29)
\* hours of the UTC day at which the clock is read: both sides of the
\* local midnight of every offset in TimeZones
ClockHours == {0, 7, 15, 23}
TimeZones == {-8, 0, 9}
Instants == {(FirstDay + 2 * k) * 24 + h : k \in 0..(NumDays - 1), h \in ClockHours}

\* the identifiers of the current period and of the MaxBack before it
RecentIds(t, f) ==
    IF f = "weekly"
    THEN {getWeekIdentifier(t - k * 7 * 24) : k \in 0..MaxBack}
    ELSE {getLocalDateString(t - k * 24) : k \in 0..MaxBack}

NoUser == "none"
NoReq == [kind |-> "none"]
NoRender == [cards |-> <<>>]

\* no habit card is being rendered by the engine's harness
EngineIdle ==
    /\ frequency = "daily"
    /\ completedDates = {}
    /\ date = 0
    /\ op = "init"
    /\ ret = <<>>

\* no habit list: nothing loaded, typed or in flight, an empty table
HabitsIdle ==
    /\ streaks = <<>>
    /\ isLoading = TRUE
    /\ isAdding = FALSE
    /\ inputValue = <<>>
    /\ selFrequency = "daily"
    /\ rendered = NoRender
    /\ loadDue = FALSE
    /\ loadReq = NoReq
    /\ addReq = NoReq
    /\ addTimer = NoReq
    /\ syncReq = NoReq
    /\ db = {}
    /\ ticks = 0

\* the main page mounted and signed in as u
SignedIn(u) ==
    /\ user = u
    /\ isAuthChecking = FALSE
    /\ session = u
    /\ page = "main"
    /\ pushed = "none"
    /\ authCheck = "done"
    /\ events = <<>>
    /\ loginIsLoading = TRUE

Init ==
    /\ now \in Instants
    /\ tz \in TimeZones
    /\ frequency \in {"daily", "weekly"}
    /\ completedDates \in SUBSET RecentIds(now, frequency)
    /\ date = now
    /\ op = "init"
    /\ ret = <<>>
    /\ HabitsIdle
    /\ SignedIn("u1")

\* one action per operation of the engine: it is applied to the state's
\* inputs and its result is kept in ret
Returns(name, value) ==
    /\ op' = name
    /\ ret' = value
    /\ UNCHANGED <<now, tz, frequency, completedDates, habitVars, authVars>>

\* d = getWeekStart(d)
Call_getWeekStart ==
    /\ date' = getWeekStart(date)
    /\ Returns("getWeekStart", [arg |-> date, val |-> getWeekStart(date)])

Call_getLocalDateString ==
    /\ Returns("getLocalDateString", getLocalDateString(date))
    /\ UNCHANGED date

Call_getWeekIdentifier ==
    /\ Returns("getWeekIdentifier", getWeekIdentifier(date))
    /\ UNCHANGED date

\* the weekly box's label: getWeekDates of a week identifier
Call_getWeekDates ==
    /\ LET identifier == getWeekIdentifier(date)
       IN  Returns("getWeekDates",
                   [identifier |-> identifier, dates |-> getWeekDates(identifier)])
    /\ UNCHANGED date

\* the daily box's label: the identifier of a date parsed back to a Date
Call_parseBoxIdentifier ==
    /\ LET identifier == getLocalDateString(date)
       IN  Returns("parseBoxIdentifier",
                   [identifier |-> identifier, dateObj |-> parseBoxIdentifier(identifier)])
    /\ UNCHANGED date

\* a count whose walk deletes the identifiers it has counted
Call_getStreakCount_consuming ==
    LET trace == getStreakTrace(completedDates, frequency)
    IN  /\ op' = "getStreakCount"
        /\ ret' = trace
        /\ completedDates' =
               completedDates \ {trace.walk[i] : i \in 1..Len(trace.walk)}
        /\ UNCHANGED <<now, tz, frequency, date, habitVars, authVars>>

\* a habit card is rendered: its streak count
Call_getStreakCount ==
    /\ Returns("getStreakCount", getStreakTrace(completedDates, frequency))
    /\ UNCHANGED date

\* a habit card is rendered: its boxes and the box that can be toggled
Call_getBoxes ==
    /\ Returns("getBoxes",
               [boxes |-> IF frequency = "weekly" THEN getWeekBoxes ELSE getDateBoxes,
                currentIdentifier |-> currentIdentifier(frequency)])
    /\ UNCHANGED date

\* the same card rendered by the earlier revision
Call_getStreakCountISO ==
    /\ frequency = "daily"
    /\ Returns("getStreakCountISO", getStreakTraceISO(completedDates))
    /\ UNCHANGED date

Call_getBoxesISO ==
    /\ frequency = "daily"
    /\ Returns("getBoxesISO",
               [boxes |-> getDateBoxesISO, currentIdentifier |-> todayStringISO])
    /\ UNCHANGED date

Next ==
    \/ Call_getWeekStart
    \/ Call_getLocalDateString
    \/ Call_getWeekIdentifier
    \/ Call_getWeekDates
    \/ Call_parseBoxIdentifier
    \/ Call_getStreakCount
    \/ Call_getBoxes
    \/ Call_getStreakCountISO
    \/ Call_getBoxesISO

Spec == Init /\ [][Next]_vars

(***************************************************************************)
(* The calendar the claims are stated in: day numbers, the identifier of a *)
(* day number, and the periods counted back from the local day of `now`.   *)
(***************************************************************************)
IdOfDay(n) ==
    LET c == CivilFromDays(n)
    IN  Template(padStart(String(c.year), 4), padStart(String(c.month), 2),
                 padStart(String(c.day), 2))

Today == LocalDay(now)
\* the day number of the Monday of n's Monday-to-Sunday week
MondayOf(n) == n - ((n + 3) % 7)

\* the identifier of the period k periods before the current one
PeriodId(freq, k) ==
    IF freq = "weekly" THEN IdOfDay(MondayOf(Today) - 7 * k) ELSE IdOfDay(Today - k)

\* the current period and the n - 1 before it are completed, the n-th is not
RunOf(freq, n) ==
    /\ \A k \in 0..(n - 1) : PeriodId(freq, k) \in completedDates
    /\ PeriodId(freq, n) \notin completedDates

Counted(freq) == op = "getStreakCount" /\ frequency = freq

\* C1: daily cadence, today completed: the count is the length of the run
\* of consecutive completed days that ends today
C1_DailyRunLength ==
    Counted("daily") =>
        \A n \in 1..(MaxBack + 1) : RunOf("daily", n) => ret.streak = n

\* now = 2024-03-14 with {2024-03-12, 2024-03-13, 2024-03-14} gives 3
C1_Witness ==
    /\ Counted("daily")
    /\ Today = DaysFromCivil(2024, 3, 14)
    /\ RunOf("daily", 3)
    /\ ret.streak = 3

\* C2: daily grace period: today not completed, yesterday completed: the
\* walk starts at yesterday and the count is at least 1, and exactly 1 when
\* yesterday is the only completion
C2_DailyGrace ==
    (/\ Counted("daily")
     /\ PeriodId("daily", 0) \notin completedDates
     /\ PeriodId("daily", 1) \in completedDates)
    => /\ ret.streak >= 1
       /\ ret.walk[1] = PeriodId("daily", 1)
       /\ completedDates = {PeriodId("daily", 1)} => ret.streak = 1

C2_Witness ==
    /\ Counted("daily")
    /\ completedDates = {PeriodId("daily", 1)}
    /\ ret.streak = 1

\* C3: broken streak, either cadence: neither the current nor the previous
\* period completed (the empty set included) gives 0 whatever older
\* identifiers the set holds
C3_BrokenStreak ==
    (/\ op = "getStreakCount"
     /\ PeriodId(frequency, 0) \notin completedDates
     /\ PeriodId(frequency, 1) \notin completedDates)
    => ret.streak = 0

C3_Witness ==
    /\ op = "getStreakCount"
    /\ PeriodId(frequency, 0) \notin completedDates
    /\ PeriodId(frequency, 1) \notin completedDates
    /\ {PeriodId(frequency, 2), PeriodId(frequency, 3)} \subseteq completedDates
    /\ ret.streak = 0

\* C4: weekly cadence, current week completed, every timezone offset: the
\* count is the length of the run of consecutive completed weeks that ends
\* with the current week
C4_WeeklyRunLength ==
    Counted("weekly") =>
        \A n \in 1..(MaxBack + 1) : RunOf("weekly", n) => ret.streak = n

\* C5: weekly grace scenario: `now` on the Monday of week W and the
\* completions those of W-1 and W-2 give 2
C5_WeeklyGraceScenario ==
    (/\ Counted("weekly")
     /\ Today = MondayOf(Today)
     /\ completedDates = {PeriodId("weekly", 1), PeriodId("weekly", 2)})
    => ret.streak = 2

\* the scenario of C6: now = 2024-03-14, completions 2024-03-12 and -13
C6_Scenario ==
    /\ Counted("daily")
    /\ Today = DaysFromCivil(2024, 3, 14)
    /\ completedDates = {IdOfDay(DaysFromCivil(2024, 3, 12)),
                         IdOfDay(DaysFromCivil(2024, 3, 13))}

\* C6 as stated: the scenario gives 1
C6_ScenarioGivesOne == C6_Scenario => ret.streak = 1

\* C6 as amended: the scenario gives 2, the walk from yesterday counting
\* 2024-03-13 and 2024-03-12
C6_ScenarioGivesTwo == C6_Scenario => ret.streak = 2

C6_Witness == C6_Scenario /\ ret.streak = 2

IsDigitChar(c) == \E n \in 0..9 : Digit(n) = c

\* s reads YYYY-MM-DD, month and day zero-padded, and names day number n
IsIdOfDay(s, n) ==
    /\ Len(s) = 10
    /\ s[5] = "-"
    /\ s[8] = "-"
    /\ \A i \in {1, 2, 3, 4, 6, 7, 9, 10} : IsDigitChar(s[i])
    /\ LET y == Number(SubSeq(s, 1, 4))
           m == Number(SubSeq(s, 6, 7))
           d == Number(SubSeq(s, 9, 10))
       IN  m \in 1..12 /\ d \in 1..31 /\ DaysFromCivil(y, m, d) = n

\* the daily identifiers returned by the operations boxOps (the rolling
\* window and the toggle identifier) and looked up by the operations
\* countOps (today, yesterday and the cursor of the walk) are those of the
\* local calendar days
DailyIdsAreLocal(boxOps, countOps) ==
    /\ (frequency = "daily" /\ op \in boxOps) =>
          /\ IsIdOfDay(ret.currentIdentifier, Today)
          /\ \A k \in 1..(WindowBack + 1) :
                 IsIdOfDay(ret.boxes[k], Today - (WindowBack + 1 - k))
    /\ (frequency = "daily" /\ op \in countOps /\ ret.guard # <<>>) =>
          /\ IsIdOfDay(ret.guard[1], Today)
          /\ IsIdOfDay(ret.guard[2], Today - 1)
          /\ \E start \in {Today, Today - 1} :
                 \A i \in 1..Len(ret.walk) : IsIdOfDay(ret.walk[i], start - (i - 1))
    /\ op = "getLocalDateString" => IsIdOfDay(ret, LocalDay(date))

\* C7: every daily identifier the program produces or looks up, in the
\* current revision and in the earlier one, is the zero-padded YYYY-MM-DD
\* of the local calendar day, at every instant and timezone offset
C7_DailyIdsAreLocal ==
    DailyIdsAreLocal({"getBoxes", "getBoxesISO"},
                     {"getStreakCount", "getStreakCountISO"})

\* C8: getWeekStart(date) is local midnight of the Monday of date's
\* Monday-to-Sunday week: a Monday, 0 to 6 days before date's day, by the
\* offset -6 for a Sunday and 1 - dayOfWeek otherwise
C8_WeekStartIsMonday ==
    op = "getWeekStart" =>
        LET a == LocalDay(ret.arg)
            v == LocalDay(ret.val)
            dayOfWeek == (a + 4) % 7
        IN  /\ (v + 4) % 7 = 1
            /\ ret.val = v * 24 - tz
            /\ a - v \in 0..6
            /\ v = MondayOf(a)
            /\ v - a = (IF dayOfWeek = 0 THEN -6 ELSE 1 - dayOfWeek)

\* a Sunday was moved back six days, across the end of February
C8_Witness ==
    /\ op = "getWeekStart"
    /\ LocalDay(ret.arg) = DaysFromCivil(2024, 3, 3)
    /\ LocalDay(ret.val) = DaysFromCivil(2024, 2, 26)

\* C9: getWeekStart is idempotent: applied to its own result it returns it
C9_WeekStartIdempotent ==
    [][(op = "getWeekStart" /\ op' = "getWeekStart") => date' = date]_vars

\* getWeekStart was applied to a week start that it had moved `now` to
C9_Witness ==
    /\ op = "getWeekStart"
    /\ ret.arg = ret.val
    /\ ret.arg # now

\* C10: getWeekDates(getWeekIdentifier(d)) is a pair (start, end) with
\* start <= d, d's calendar day <= end's, end exactly 6 days after start,
\* and start the local midnight of the local date the identifier reads
C10_WeekDatesSpan ==
    op = "getWeekDates" =>
        LET start == ret.dates.start
            end   == ret.dates.end
        IN  /\ start <= date
            /\ LocalDay(start) <= LocalDay(date)
            /\ LocalDay(date) <= LocalDay(end)
            /\ end = start + 6 * 24
            /\ start = LocalDay(start) * 24 - tz
            /\ IsIdOfDay(ret.identifier, LocalDay(start))

\* d is a Sunday: the last day of the range
C10_Witness ==
    /\ op = "getWeekDates"
    /\ LocalDay(date) = LocalDay(ret.dates.end)
    /\ LocalDay(date) = LocalDay(ret.dates.start) + 6

\* C11: format round trip: getLocalDateString(d) parsed back into a local
\* date (year, month - 1, day) and formatted again is the same string
C11_FormatRoundTrip ==
    op = "parseBoxIdentifier" => getLocalDateString(ret.dateObj) = ret.identifier

\* the date is in the first nine days of a month after a leap-day February:
\* both the month and the day are zero-padded and parsed back
C11_Witness ==
    /\ op = "parseBoxIdentifier"
    /\ LocalDay(date) = DaysFromCivil(2024, 3, 1)
    /\ LocalHour(date) # 0
    /\ ret.dateObj = LocalDay(date) * 24 - tz

\* C12: the rolling window is 7 pairwise distinct identifiers, oldest
\* first, consecutive periods apart (1 local day, or 7 local days between
\* Mondays), the last being the current period's identifier
C12_RollingWindow ==
    op = "getBoxes" =>
        /\ Len(ret.boxes) = 7
        /\ \A i, j \in 1..Len(ret.boxes) : i # j => ret.boxes[i] # ret.boxes[j]
        /\ \A k \in 1..Len(ret.boxes) :
               ret.boxes[k] = PeriodId(frequency, Len(ret.boxes) - k)
        /\ ret.boxes[Len(ret.boxes)] = ret.currentIdentifier

\* a weekly window whose seven Mondays reach back into January
C12_Witness ==
    /\ op = "getBoxes"
    /\ frequency = "weekly"
    /\ ret.boxes[7] = IdOfDay(DaysFromCivil(2024, 3, 11))
    /\ ret.boxes[1] = IdOfDay(DaysFromCivil(2024, 1, 29))

\* C15: getStreakCount, getDateBoxes and getWeekBoxes are pure reads: a
\* call leaves the completion set passed in and the list of habits as
\* they were
C15_PureReads ==
    [][op' \in {"getStreakCount", "getBoxes"} =>
          /\ completedDates' = completedDates
          /\ streaks' = streaks]_vars

\* a count whose walk has looked up three identifiers of the set
C15_Witness ==
    /\ op = "getStreakCount"
    /\ ret.streak = 3
    /\ {ret.walk[i] : i \in 1..3} \subseteq completedDates

\* C23: getStreakCount terminates for every finite completion set under both
\* cadences: every lookup of the backward walk is of an identifier not looked
\* up before, the walk stops at the first identifier that is absent, and so
\* it makes at most |completions| + 1 lookups.
C23_WalkTerminates ==
    op = "getStreakCount" =>
        /\ Len(ret.walk) <= Cardinality(completedDates) + 1
        /\ \A i, j \in 1..Len(ret.walk) : i # j => ret.walk[i] # ret.walk[j]
        /\ \A i \in 1..(Len(ret.walk) - 1) : ret.walk[i] \in completedDates
        /\ Len(ret.walk) > 0 => ret.walk[Len(ret.walk)] \notin completedDates

\* a walk through all of a set of four identifiers, five lookups
C23_Witness ==
    /\ op = "getStreakCount"
    /\ frequency = "weekly"
    /\ Cardinality(completedDates) = MaxBack + 1
    /\ Len(ret.walk) = Cardinality(completedDates) + 1

(***************************************************************************)
(* The habit list of Home: loadStreaks, handleAddStreak, the boxes'        *)
(* onClick with toggleDate, and the backend's streaks table.  A backend    *)
(* call is a request in flight that is answered in a later step.  Every    *)
(* change of the component's state re-renders it; the clock passing does   *)
(* not, so the handlers work with the identifiers of the last render.      *)
(***************************************************************************)
\* streak.frequency of a row that has no frequency
Missing == "undefined"
NotADate == <<"n", "o", "t", "-", "a", "-", "d", "a", "t", "e">>
Names == {<<"r", "u", "n">>}
\* the clock advances by a day or by a week
TickHours == {24, 7 * 24}
\* 2024-02-29T07:00Z: 23:00 of the day before at UTC-8
AppStart == FirstDay * 24 + 7
AppZones == {-8, 9}

Row(id, uid, name, dates, freq, created) ==
    [id |-> id, user_id |-> uid, name |-> name, completed_dates |-> dates,
     frequency |-> freq, created_at |-> created]

\* the table before the page is opened: empty, or one row of u1 written
\* earlier (id 0): a daily habit with yesterday and an entry that is no
\* date, or a habit without frequency
InitialDbs ==
    LET old(dates, freq) == {Row(0, "u1", <<"o", "l", "d">>, dates, freq, now - 24)}
    IN  { {},
          old({getLocalDateString(now - 24), NotADate}, "daily"),
          old({getLocalDateString(now)}, Missing) }

\* the id the backend gives the next inserted row
NewId == Cardinality({r \in db : r.id > 0}) + 1

\* .order("created_at", { ascending: false })
RECURSIVE OrderDesc(_)
OrderDesc(rows) ==
    IF rows = {} THEN <<>>
    ELSE LET r == CHOOSE x \in rows : \A y \in rows : y.created_at <= x.created_at
         IN  <<r>> \o OrderDesc(rows \ {r})

\* select * from streaks where user_id = uid, under row level security
SelectRows(uid) == OrderDesc({r \in db : r.user_id = uid /\ r.user_id = session})

\* the number a habit card shows
currentStreak(streak) == getStreakCount(streak.completedDates, streak.frequency)

\* what a habit card's buttons hold: its boxes and the box that can be toggled
RenderCard(streak) ==
    [boxes |-> IF streak.frequency = "weekly" THEN getWeekBoxes ELSE getDateBoxes,
     currentIdentifier |->
         IF streak.frequency = "weekly" THEN getWeekIdentifier(now) ELSE todayString]

\* the render of Home: the spinner while checking or loading, else the cards
Render(ss, checking, loading) ==
    [cards |-> IF checking \/ loading THEN <<>>
               ELSE [i \in 1..Len(ss) |-> RenderCard(ss[i])]]

\* a loaded row without frequency taken as weekly
LoadedStreak_weeklyDefault(row) ==
    [id |-> row.id, name |-> row.name, completedDates |-> row.completed_dates,
     frequency |-> IF row.frequency = Missing THEN "weekly" ELSE row.frequency]

\* loadStreaks: a row mapped to a habit
LoadedStreak(row) ==
    [id |-> row.id, name |-> row.name, completedDates |-> row.completed_dates,
     frequency |-> IF row.frequency = Missing THEN "daily" ELSE row.frequency]

\* the effect on [user, loadStreaks]: loadStreaks sends its select
loadStreaks ==
    /\ loadDue
    /\ page = "main"
    /\ loadReq = NoReq
    /\ loadDue' = FALSE
    /\ loadReq' = IF user = NoUser THEN NoReq ELSE [kind |-> "select", uid |-> user]
    /\ UNCHANGED <<now, tz, engineVars, authVars, streaks, isLoading, isAdding,
                   inputValue, selFrequency, rendered, addReq, addTimer, syncReq,
                   db, ticks>>

\* loadStreaks after its await: data, an error object, or a throw
loadStreaks_done(outcome) ==
    /\ loadReq # NoReq
    /\ page = "main"
    /\ loadReq' = NoReq
    /\ streaks' = IF outcome = "data"
                  THEN LET rows == SelectRows(loadReq.uid)
                       IN  [i \in 1..Len(rows) |-> LoadedStreak(rows[i])]
                  ELSE streaks
    /\ isLoading' = FALSE
    /\ rendered' = Render(streaks', isAuthChecking, isLoading')
    /\ UNCHANGED <<now, tz, engineVars, authVars, isAdding, inputValue,
                   selFrequency, loadDue, addReq, addTimer, syncReq, db, ticks>>

\* onChange of the name input
setInputValue(v) ==
    /\ page = "main"
    /\ ~isAuthChecking
    /\ addReq = NoReq
    /\ addTimer = NoReq
    /\ NewId <= MaxAdds
    /\ inputValue # v
    /\ inputValue' = v
    /\ rendered' = Render(streaks, isAuthChecking, isLoading)
    /\ UNCHANGED <<now, tz, engineVars, authVars, streaks, isLoading, isAdding,
                   selFrequency, loadDue, loadReq, addReq, addTimer, syncReq, db,
                   ticks>>

\* onChange of the cadence select
setFrequency(f) ==
    /\ page = "main"
    /\ ~isAuthChecking
    /\ addReq = NoReq
    /\ addTimer = NoReq
    /\ NewId <= MaxAdds
    /\ selFrequency # f
    /\ selFrequency' = f
    /\ rendered' = Render(streaks, isAuthChecking, isLoading)
    /\ UNCHANGED <<now, tz, engineVars, authVars, streaks, isLoading, isAdding,
                   inputValue, loadDue, loadReq, addReq, addTimer, syncReq, db,
                   ticks>>

\* handleAddStreak up to its await: the insert is sent; the callbacks keep
\* the streaks of this render
handleAddStreak ==
    /\ page = "main"
    /\ ~isAuthChecking
    /\ inputValue # <<>>
    /\ user # NoUser
    /\ addReq = NoReq
    /\ addTimer = NoReq
    /\ NewId <= MaxAdds
    /\ isAdding' = TRUE
    /\ addReq' = [kind |-> "insert",
                  newStreak |-> [user_id |-> user, name |-> inputValue,
                                 completed_dates |-> {}, frequency |-> selFrequency,
                                 created_at |-> now],
                  streaks |-> streaks]
    /\ rendered' = Render(streaks, isAuthChecking, isLoading)
    /\ UNCHANGED <<now, tz, engineVars, authVars, streaks, isLoading, inputValue,
                   selFrequency, loadDue, loadReq, addTimer, syncReq, db, ticks>>

\* handleAddStreak after its await: the inserted row, an error object, no
\* data, or a throw
handleAddStreak_done(outcome) ==
    /\ addReq # NoReq
    /\ addReq' = NoReq
    /\ LET n    == addReq.newStreak
           data == Row(NewId, n.user_id, n.name, n.completed_dates, n.frequency,
                       n.created_at)
       IN  /\ db' = IF outcome = "data" /\ n.user_id = session
                    THEN db \cup {data} ELSE db
           /\ addTimer' = IF outcome = "data" /\ n.user_id = session
                          THEN [kind |-> "timer", data |-> data,
                                streaks |-> addReq.streaks]
                          ELSE NoReq
    /\ isAdding' = IF outcome = "throw" THEN FALSE ELSE isAdding
    /\ rendered' = IF isAdding' # isAdding /\ page = "main"
                   THEN Render(streaks, isAuthChecking, isLoading) ELSE rendered
    /\ UNCHANGED <<now, tz, engineVars, authVars, streaks, isLoading, inputValue,
                   selFrequency, loadDue, loadReq, syncReq, ticks>>

\* the setTimeout callback of handleAddStreak, 400 ms after the insert
handleAddStreak_timer ==
    /\ addTimer # NoReq
    /\ addTimer' = NoReq
    /\ LET data == addTimer.data
       IN  streaks' = <<[id |-> data.id, name |-> data.name,
                         completedDates |-> data.completed_dates,
                         frequency |-> data.frequency]>> \o addTimer.streaks
    /\ inputValue' = <<>>
    /\ selFrequency' = "daily"
    /\ isAdding' = FALSE
    /\ rendered' = IF page = "main"
                   THEN Render(streaks', isAuthChecking, isLoading) ELSE rendered
    /\ UNCHANGED <<now, tz, engineVars, authVars, isLoading, loadDue, loadReq,
                   addReq, syncReq, db, ticks>>

\* toggleDate that only ever adds the identifier
toggleDate_addOnly(streakId, identifier) ==
    IF \A i \in 1..Len(streaks) : streaks[i].id # streakId
    THEN UNCHANGED vars
    ELSE LET streak   == streaks[CHOOSE i \in 1..Len(streaks) : streaks[i].id = streakId]
             newDates == streak.completedDates \cup {identifier}
         IN  /\ streaks' = [i \in 1..Len(streaks) |->
                               IF streaks[i].id = streakId
                               THEN [streaks[i] EXCEPT !.completedDates = newDates]
                               ELSE streaks[i]]
             /\ syncReq' = [kind |-> "update", id |-> streakId,
                            completed_dates |-> newDates]
             /\ rendered' = Render(streaks', isAuthChecking, isLoading)
             /\ UNCHANGED <<now, tz, engineVars, authVars, isLoading, isAdding,
                            inputValue, selFrequency, loadDue, loadReq, addReq,
                            addTimer, db, ticks>>

\* toggleDate applying the new set to every habit of the list
toggleDate_everyHabit(streakId, identifier) ==
    LET streak   == streaks[CHOOSE i \in 1..Len(streaks) : streaks[i].id = streakId]
        newDates == IF identifier \in streak.completedDates
                    THEN streak.completedDates \ {identifier}
                    ELSE streak.completedDates \cup {identifier}
    IN  /\ streaks' = [i \in 1..Len(streaks) |->
                          [streaks[i] EXCEPT !.completedDates = newDates]]
        /\ syncReq' = [kind |-> "update", id |-> streakId,
                       completed_dates |-> newDates]
        /\ rendered' = Render(streaks', isAuthChecking, isLoading)
        /\ UNCHANGED <<now, tz, engineVars, authVars, isLoading, isAdding,
                       inputValue, selFrequency, loadDue, loadReq, addReq,
                       addTimer, db, ticks>>

\* toggleDate up to its await: the local update, and the update it sends
toggleDate(streakId, identifier) ==
    IF \A i \in 1..Len(streaks) : streaks[i].id # streakId
    THEN UNCHANGED vars
    ELSE LET streak   == streaks[CHOOSE i \in 1..Len(streaks) : streaks[i].id = streakId]
             newDates == IF identifier \in streak.completedDates
                         THEN streak.completedDates \ {identifier}
                         ELSE streak.completedDates \cup {identifier}
         IN  /\ streaks' = [i \in 1..Len(streaks) |->
                               IF streaks[i].id = streakId
                               THEN [streaks[i] EXCEPT !.completedDates = newDates]
                               ELSE streaks[i]]
             /\ syncReq' = [kind |-> "update", id |-> streakId,
                            completed_dates |-> newDates]
             /\ rendered' = Render(streaks', isAuthChecking, isLoading)
             /\ UNCHANGED <<now, tz, engineVars, authVars, isLoading, isAdding,
                            inputValue, selFrequency, loadDue, loadReq, addReq,
                            addTimer, db, ticks>>

\* the onClick of every box toggling its identifier
ClickBox_anyBox(i, k) ==
    /\ page = "main"
    /\ i \in 1..Len(rendered.cards)
    /\ syncReq = NoReq
    /\ toggleDate(streaks[i].id, rendered.cards[i].boxes[k])

\* the onClick of the k-th box of the i-th card, as the last render made it
ClickBox(i, k) ==
    /\ page = "main"
    /\ i \in 1..Len(rendered.cards)
    /\ syncReq = NoReq
    /\ LET identifier == rendered.cards[i].boxes[k]
           isCurrent  == identifier = rendered.cards[i].currentIdentifier
       IN  IF isCurrent THEN toggleDate(streaks[i].id, identifier)
           ELSE UNCHANGED vars

\* toggleDate after its await: the update applied, an error object, or a throw
toggleDate_done(outcome) ==
    /\ syncReq # NoReq
    /\ syncReq' = NoReq
    /\ db' = IF outcome = "ok"
             THEN {IF r.id = syncReq.id /\ r.user_id = session
                   THEN [r EXCEPT !.completed_dates = syncReq.completed_dates]
                   ELSE r : r \in db}
             ELSE db
    /\ UNCHANGED <<now, tz, engineVars, authVars, streaks, isLoading, isAdding,
                   inputValue, selFrequency, rendered, loadDue, loadReq, addReq,
                   addTimer, ticks>>

\* handleResize: setWindowDimensions re-renders the page
handleResize ==
    /\ page = "main"
    /\ rendered # Render(streaks, isAuthChecking, isLoading)
    /\ rendered' = Render(streaks, isAuthChecking, isLoading)
    /\ UNCHANGED <<now, tz, engineVars, authVars, streaks, isLoading, isAdding,
                   inputValue, selFrequency, loadDue, loadReq, addReq, addTimer,
                   syncReq, db, ticks>>

\* time passes
Tick(hours) ==
    /\ ticks < MaxTicks
    /\ ticks' = ticks + 1
    /\ now' = now + hours
    /\ UNCHANGED <<tz, engineVars, authVars, streaks, isLoading, isAdding,
                   inputValue, selFrequency, rendered, loadDue, loadReq, addReq,
                   addTimer, syncReq, db>>

HabitInit ==
    /\ now = AppStart
    /\ tz \in AppZones
    /\ EngineIdle
    /\ SignedIn("u1")
    /\ streaks = <<>>
    /\ isLoading = TRUE
    /\ isAdding = FALSE
    /\ inputValue = <<>>
    /\ selFrequency = "daily"
    /\ rendered = Render(<<>>, FALSE, TRUE)
    /\ loadDue = TRUE
    /\ loadReq = NoReq
    /\ addReq = NoReq
    /\ addTimer = NoReq
    /\ syncReq = NoReq
    /\ db \in InitialDbs
    /\ ticks = 0

HabitNext ==
    \/ loadStreaks
    \/ \E outcome \in {"data", "error", "throw"} : loadStreaks_done(outcome)
    \/ \E v \in Names \cup {<<>>} : setInputValue(v)
    \/ \E f \in {"daily", "weekly"} : setFrequency(f)
    \/ handleAddStreak
    \/ \E outcome \in {"data", "error", "nodata", "throw"} : handleAddStreak_done(outcome)
    \/ handleAddStreak_timer
    \/ \E i \in 1..Len(streaks), k \in 1..(WindowBack + 1) : ClickBox(i, k)
    \/ \E outcome \in {"ok", "error", "throw"} : toggleDate_done(outcome)
    \/ handleResize
    \/ \E hours \in TickHours : Tick(hours)

HabitSpec == HabitInit /\ [][HabitNext]_vars

(***************************************************************************)
(* Claims about the habit list.                                            *)
(***************************************************************************)
\* s reads YYYY-MM-DD with a month and a day of the calendar's range
ParsesAsLocalDate(s) ==
    /\ Len(s) = 10
    /\ s[5] = "-"
    /\ s[8] = "-"
    /\ \A i \in {1, 2, 3, 4, 6, 7, 9, 10} : IsDigitChar(s[i])
    /\ Number(SubSeq(s, 6, 7)) \in 1..12
    /\ Number(SubSeq(s, 9, 10)) \in 1..31

\* how the streak computation of a card ends: getStreakCount has no throw
\* and no error return, every path of it returns a number
StreakOutcome(streak) == [kind |-> "count", count |-> currentStreak(streak)]

\* C13: when the completion set of a habit holds an entry that cannot be parsed
\* as a local date, the streak computation ends in an InvalidIdentifier error
\* outcome and never in a count that skips the entry.
C13_MalformedEntryRejected ==
    \A i \in 1..Len(rendered.cards) :
        (\E e \in streaks[i].completedDates : ~ParsesAsLocalDate(e))
            => StreakOutcome(streaks[i]).kind = "InvalidIdentifier"

\* the number of consecutive periods in set, counting back from the k-th
\* period before the current one
RECURSIVE RunLen(_, _, _)
RunLen(set, freq, k) ==
    IF PeriodId(freq, k) \in set THEN 1 + RunLen(set, freq, k + 1) ELSE 0

\* the streak of a set: the run ending at the current period, or else the
\* run ending at the period before it
ExpectedStreak(set, freq) ==
    IF PeriodId(freq, 0) \in set THEN RunLen(set, freq, 0) ELSE RunLen(set, freq, 1)

\* the backend row the i-th habit of the list was loaded from has no frequency
LoadedWithoutCadence(i) ==
    \E r \in db : r.id = streaks[i].id /\ r.frequency \notin {"daily", "weekly"}

\* C14 as stated: a habit loaded with a cadence outside {daily, weekly},
\* a missing frequency included, ends the streak computation in an
\* InvalidCadence error outcome and is never counted as a daily habit.
C14_InvalidCadenceRejected ==
    \A i \in 1..Len(rendered.cards) :
        LoadedWithoutCadence(i) => StreakOutcome(streaks[i]).kind = "InvalidCadence"

\* C14: every habit of the list has the cadence daily or weekly; a habit
\* loaded from a row without frequency is a daily habit, and its card shows
\* the daily streak of its completion set.
C14_MissingCadenceIsDaily ==
    \A i \in 1..Len(streaks) :
        /\ streaks[i].frequency \in {"daily", "weekly"}
        /\ LoadedWithoutCadence(i) =>
              /\ streaks[i].frequency = "daily"
              /\ StreakOutcome(streaks[i]) =
                     [kind |-> "count",
                      count |-> ExpectedStreak(streaks[i].completedDates, "daily")]

C14_Witness ==
    /\ Len(rendered.cards) = 1
    /\ LoadedWithoutCadence(1)
    /\ streaks[1].completedDates = {IdOfDay(Today)}
    /\ StreakOutcome(streaks[1]).count = 1
    /\ syncReq = NoReq

\* a step in which toggleDate makes its local update and sends its update
ToggleStep == syncReq = NoReq /\ syncReq' # NoReq

\* the identifiers in exactly one of the two sets
SymDiff(a, b) == (a \ b) \cup (b \ a)

\* C17: a newly created habit has an empty completion set, in the backend
\* and in the list; toggleDate(streakId, id) changes the set of exactly that
\* habit by exactly the identifier id of the clicked box, and leaves every
\* other identifier of the habit, its name and cadence, and every other
\* habit unchanged.
C17_ToggleChangesOneIdentifier ==
    [][/\ (addReq # NoReq /\ addReq' = NoReq) =>
              \A r \in db' \ db : r.completed_dates = {}
       /\ (addTimer # NoReq /\ addTimer' = NoReq) =>
              /\ streaks'[1].id = addTimer.data.id
              /\ streaks'[1].completedDates = {}
       /\ ToggleStep =>
              \E i \in 1..Len(streaks) :
                  /\ streaks[i].id = syncReq'.id
                  /\ Len(streaks') = Len(streaks)
                  /\ \E k \in 1..Len(rendered.cards[i].boxes) :
                         SymDiff(streaks'[i].completedDates, streaks[i].completedDates)
                             = {rendered.cards[i].boxes[k]}
                  /\ streaks'[i] = [streaks[i] EXCEPT
                                       !.completedDates = streaks'[i].completedDates]
                  /\ syncReq'.completed_dates = streaks'[i].completedDates
                  /\ \A j \in 1..Len(streaks) : j # i => streaks'[j] = streaks[j]
      ]_vars

C17_Witness ==
    /\ Len(streaks) = 2
    /\ streaks[1].completedDates = {}
    /\ syncReq # NoReq
    /\ syncReq.id = streaks[2].id
    /\ streaks[2].completedDates = syncReq.completed_dates
    /\ IdOfDay(Today) \in streaks[2].completedDates
    /\ \E r \in db : r.id = streaks[2].id /\ IdOfDay(Today) \notin r.completed_dates

\* C18: only the current period can be toggled: whenever a toggle is accepted,
\* the one identifier it adds to or removes from the habit's set is the
\* identifier of the current period (today for a daily habit, this week's
\* Monday for a weekly one); a click on a box of a past period changes nothing.
C18_OnlyCurrentPeriod ==
    [][ToggleStep =>
           \E i \in 1..Len(streaks) :
               /\ streaks[i].id = syncReq'.id
               /\ SymDiff(streaks'[i].completedDates, streaks[i].completedDates)
                      = {PeriodId(streaks[i].frequency, 0)}
      ]_vars

\* the habits created on this page (the backend numbers them from 1)
CreatedHere(streak) == streak.id > 0

\* s is the identifier of a local day, and of a Monday for a weekly habit
WellFormedFor(freq, s) ==
    /\ ParsesAsLocalDate(s)
    /\ LET n == DaysFromCivil(Number(SubSeq(s, 1, 4)), Number(SubSeq(s, 6, 7)),
                              Number(SubSeq(s, 9, 10)))
       IN  /\ IdOfDay(n) = s
           /\ freq = "weekly" => MondayOf(n) = n

\* C16: after any creations, toggles and roll-overs, every identifier in the
\* completion set of a habit created here is well formed for the habit's
\* cadence (a local date; a Monday for a weekly habit), the set sent to the
\* backend lists no identifier twice, and the identifier a toggle puts into a
\* daily habit's set is today's at the time of the toggle.
C16_WellFormedCompletions ==
    /\ [](\A i \in 1..Len(streaks) :
              CreatedHere(streaks[i]) =>
                  \A s \in streaks[i].completedDates :
                      WellFormedFor(streaks[i].frequency, s))
    /\ [][ToggleStep =>
              \A i \in 1..Len(streaks) :
                  (CreatedHere(streaks[i]) /\ streaks[i].frequency = "daily") =>
                      streaks'[i].completedDates \ streaks[i].completedDates
                          \subseteq {IdOfDay(Today)}
         ]_vars

(***************************************************************************)
(* Authentication: the effects of Home and LoginPage (getSession and the   *)
(* onAuthStateChange listener), handleSignOut, and the router.  A          *)
(* router.push is followed in a later step; until then the page that       *)
(* issued it stays mounted and its listener stays subscribed.  The auth    *)
(* client hands a listener INITIAL_SESSION when it subscribes and the      *)
(* events of every sign-in and sign-out of this browser after that.        *)
(***************************************************************************)
\* at most this many auth events wait for delivery
MaxEvents == 2
Users == {"u1", "u2"}

AuthEvent(event, s) == [event |-> event, session |-> s]

\* one habit of each user, written earlier (ids below 1) and marked complete
\* yesterday
AuthDb ==
    LET old(id, u) == Row(id, u, <<"o", "l", "d">>, {getLocalDateString(now - 24)},
                          "daily", now - 24)
    IN  {old(0, "u1"), old(-1, "u2")}

\* a page component mounts: Home's state is the initial one, the effect
\* calls getSession and subscribes
Mounted(p) ==
    /\ page' = p
    /\ pushed' = "none"
    /\ authCheck' = "pending"
    /\ events' = <<AuthEvent("INITIAL_SESSION", session)>>
    /\ loginIsLoading' = TRUE
    /\ user' = NoUser
    /\ isAuthChecking' = TRUE
    /\ streaks' = <<>>
    /\ isLoading' = TRUE
    /\ isAdding' = FALSE
    /\ inputValue' = <<>>
    /\ selFrequency' = "daily"
    /\ rendered' = NoRender
    /\ loadDue' = FALSE
    /\ loadReq' = NoReq
    /\ addReq' = NoReq
    /\ addTimer' = NoReq
    /\ syncReq' = NoReq

\* the router follows the push: the page unmounts (its subscription ends)
\* and the target mounts
Navigate ==
    /\ pushed # "none"
    /\ Mounted(IF pushed = "/login" THEN "login" ELSE "main")
    /\ UNCHANGED <<now, tz, engineVars, session, db, ticks>>

\* setUser(session.user): the effect on [user, loadStreaks] runs again
setUser(u) ==
    /\ user' = u
    /\ loadDue' = (loadDue \/ u # user)

\* checkAuth that shows the page when there is no session
checkAuth_noRedirect ==
    /\ page = "main"
    /\ authCheck = "pending"
    /\ IF session = NoUser
       THEN /\ authCheck' = "redirected"
            /\ isAuthChecking' = FALSE
            /\ rendered' = Render(streaks, isAuthChecking', isLoading)
            /\ UNCHANGED <<pushed, user, loadDue>>
       ELSE /\ authCheck' = "done"
            /\ setUser(session)
            /\ isAuthChecking' = FALSE
            /\ rendered' = Render(streaks, isAuthChecking', isLoading)
            /\ UNCHANGED pushed
    /\ UNCHANGED <<now, tz, engineVars, session, page, events, loginIsLoading,
                   streaks, isLoading, isAdding, inputValue, selFrequency,
                   loadReq, addReq, addTimer, syncReq, db, ticks>>

\* checkAuth of Home after its await
checkAuth ==
    /\ page = "main"
    /\ authCheck = "pending"
    /\ IF session = NoUser
       THEN /\ authCheck' = "redirected"
            /\ pushed' = "/login"
            /\ UNCHANGED <<user, loadDue, isAuthChecking, rendered>>
       ELSE /\ authCheck' = "done"
            /\ setUser(session)
            /\ isAuthChecking' = FALSE
            /\ rendered' = Render(streaks, isAuthChecking', isLoading)
            /\ UNCHANGED pushed
    /\ UNCHANGED <<now, tz, engineVars, session, page, events, loginIsLoading,
                   streaks, isLoading, isAdding, inputValue, selFrequency,
                   loadReq, addReq, addTimer, syncReq, db, ticks>>

\* checkUser of LoginPage after its await
checkUser ==
    /\ page = "login"
    /\ authCheck = "pending"
    /\ authCheck' = "done"
    /\ IF session # NoUser
       THEN pushed' = "/" /\ UNCHANGED loginIsLoading
       ELSE loginIsLoading' = FALSE /\ UNCHANGED pushed
    /\ UNCHANGED <<now, tz, engineVars, habitVars, user, isAuthChecking, session,
                   page, events>>

\* Home's listener that handles SIGNED_OUT like any other event
onAuthStateChange_noSignOut(e) ==
    /\ IF e.session # NoUser
       THEN setUser(e.session) /\ UNCHANGED pushed
       ELSE UNCHANGED <<pushed, user, loadDue>>
    /\ rendered' = IF user' # user
                   THEN Render(streaks, isAuthChecking, isLoading) ELSE rendered
    /\ UNCHANGED <<isAuthChecking, loginIsLoading>>

\* the callback Home gives onAuthStateChange
onAuthStateChange(e) ==
    /\ IF e.event = "SIGNED_OUT"
       THEN pushed' = "/login" /\ UNCHANGED <<user, loadDue>>
       ELSE IF e.session # NoUser
            THEN setUser(e.session) /\ UNCHANGED pushed
            ELSE UNCHANGED <<pushed, user, loadDue>>
    /\ rendered' = IF user' # user
                   THEN Render(streaks, isAuthChecking, isLoading) ELSE rendered
    /\ UNCHANGED <<isAuthChecking, loginIsLoading>>

\* the callback LoginPage gives onAuthStateChange
onAuthStateChange_login(e) ==
    /\ pushed' = IF e.event = "SIGNED_IN" /\ e.session # NoUser THEN "/" ELSE pushed
    /\ UNCHANGED <<user, loadDue, rendered, isAuthChecking, loginIsLoading>>

\* the auth client calls the listener of the mounted page with the next event
DeliverAuthEvent ==
    /\ events # <<>>
    /\ events' = Tail(events)
    /\ IF page = "main" THEN onAuthStateChange(Head(events))
       ELSE onAuthStateChange_login(Head(events))
    /\ UNCHANGED <<now, tz, engineVars, session, page, authCheck, streaks,
                   isLoading, isAdding, inputValue, selFrequency, loadReq, addReq,
                   addTimer, syncReq, db, ticks>>

\* handleSignOut: supabase.auth.signOut() ends the session, or fails
handleSignOut(outcome) ==
    /\ page = "main"
    /\ ~isAuthChecking
    /\ session # NoUser
    /\ Len(events) < MaxEvents
    /\ IF outcome = "ok"
       THEN /\ session' = NoUser
            /\ events' = Append(events, AuthEvent("SIGNED_OUT", NoUser))
       ELSE UNCHANGED <<session, events>>
    /\ UNCHANGED <<now, tz, engineVars, habitVars, user, isAuthChecking, page,
                   pushed, authCheck, loginIsLoading>>

\* a sign-in of this browser: with the form of LoginPage, or in another tab
SignIn(u) ==
    /\ session = NoUser
    /\ Len(events) < MaxEvents
    /\ session' = u
    /\ events' = Append(events, AuthEvent("SIGNED_IN", u))
    /\ UNCHANGED <<now, tz, engineVars, habitVars, user, isAuthChecking, page,
                   pushed, authCheck, loginIsLoading>>

\* the browser opens "/", signed in or not
AuthInit ==
    /\ now = AppStart
    /\ tz \in AppZones
    /\ EngineIdle
    /\ streaks = <<>>
    /\ isLoading = TRUE
    /\ isAdding = FALSE
    /\ inputValue = <<>>
    /\ selFrequency = "daily"
    /\ rendered = NoRender
    /\ loadDue = FALSE
    /\ loadReq = NoReq
    /\ addReq = NoReq
    /\ addTimer = NoReq
    /\ syncReq = NoReq
    /\ ticks = 0
    /\ db = AuthDb
    /\ session \in Users \cup {NoUser}
    /\ page = "main"
    /\ pushed = "none"
    /\ authCheck = "pending"
    /\ events = <<AuthEvent("INITIAL_SESSION", session)>>
    /\ loginIsLoading = TRUE
    /\ user = NoUser
    /\ isAuthChecking = TRUE

AuthNext ==
    \/ checkAuth
    \/ checkUser
    \/ DeliverAuthEvent
    \/ \E outcome \in {"ok", "error"} : handleSignOut(outcome)
    \/ \E u \in Users : SignIn(u)
    \/ Navigate
    \/ loadStreaks
    \/ \E outcome \in {"data", "error", "throw"} : loadStreaks_done(outcome)

AuthSpec == AuthInit /\ [][AuthNext]_vars

(***************************************************************************)
(* Claims about authentication.                                            *)
(***************************************************************************)
\* Home is mounted and its session check has found no session
CheckFoundNoSession == page = "main" /\ authCheck = "redirected"

\* C19 as stated: whenever the session check of the main page has found no
\* session, a redirect to /login has been issued, no user is set, and no
\* habits are loaded or shown for as long as that page is mounted.
C19_NoSessionNoHabits ==
    CheckFoundNoSession =>
        /\ pushed = "/login"
        /\ user = NoUser
        /\ ~loadDue
        /\ loadReq = NoReq
        /\ streaks = <<>>
        /\ rendered.cards = <<>>

\* C19: whenever the session check of the main page has found no session, a
\* redirect to /login has been issued and the page keeps its spinner, so no
\* habit is shown while it stays mounted; the check itself sets no user and
\* loads nothing, and a user is set afterwards only by an auth event that
\* carries that user's session.
C19_NoSessionNothingShown ==
    /\ [](CheckFoundNoSession =>
              /\ pushed = "/login"
              /\ isAuthChecking
              /\ rendered.cards = <<>>)
    /\ [][/\ (page = "main" /\ authCheck = "pending" /\ authCheck' = "redirected") =>
                 /\ session = NoUser
                 /\ pushed' = "/login"
                 /\ UNCHANGED <<user, streaks, loadDue, loadReq>>
          /\ (CheckFoundNoSession /\ page' = "main" /\ user' # user) =>
                 /\ events # <<>>
                 /\ events' = Tail(events)
                 /\ Head(events).session = user'
         ]_vars

C19_Witness ==
    /\ CheckFoundNoSession
    /\ session = NoUser
    /\ pushed = "/login"
    /\ user = NoUser
    /\ events = <<>>
    /\ streaks = <<>>

\* the listener of the mounted page is called with the event e
Delivered(e) ==
    /\ events # <<>>
    /\ Head(events) = e
    /\ events' = Tail(events)
    /\ page' = page

\* C20: handleSignOut ends the session and announces SIGNED_OUT; when that
\* event is delivered to the main page, the page issues a redirect to
\* /login; the login page issues a redirect to "/" when its session check
\* finds a session and when a SIGNED_IN event with a session is delivered.
C20_SignOutRedirects ==
    [][/\ (page = "main" /\ session # NoUser /\ session' = NoUser) =>
              /\ Len(events') = Len(events) + 1
              /\ events'[Len(events')] = AuthEvent("SIGNED_OUT", NoUser)
       /\ (page = "main" /\ Delivered(AuthEvent("SIGNED_OUT", NoUser))) =>
              pushed' = "/login"
       /\ \A u \in Users :
              (page = "login" /\ Delivered(AuthEvent("SIGNED_IN", u))) =>
                  pushed' = "/"
       /\ (page = "login" /\ authCheck = "pending" /\ authCheck' = "done"
               /\ session # NoUser) =>
              pushed' = "/"
      ]_vars

C20_Witness ==
    /\ page = "main"
    /\ authCheck = "done"
    /\ user # NoUser
    /\ session = NoUser
    /\ events = <<>>
    /\ pushed = "/login"

\* a step in which a toggleDate call finishes: its update has been answered
ToggleDone == syncReq # NoReq /\ syncReq' = NoReq

\* C21: once a toggleDate call has finished, whether its update succeeded,
\* returned an error or threw, the completed_dates the backend stores for the
\* habit equal the completion set the local list holds for it.
C21_AutoSave ==
    [][ToggleDone =>
           \A i \in 1..Len(streaks') :
               streaks'[i].id = syncReq.id =>
                   \E r \in db' : /\ r.id = syncReq.id
                                  /\ r.completed_dates = streaks'[i].completedDates
      ]_vars

\* the user whose row of the streaks table a habit of the local list is
Owner(streak) == (CHOOSE r \in db : r.id = streak.id).user_id

\* C22: in every reachable state, also after the authenticated user has
\* changed and after a failed load, every habit held in the local list
\* belongs to the user the page holds as authenticated.
C22_UserIsolation ==
    \A i \in 1..Len(streaks) : Owner(streaks[i]) = user

\* C27: for every completion set and either cadence, getStreakCount returns a
\* number from 0 to |completions|, and that number is the count of consecutive
\* periods present in the set counting back from the starting cursor (the
\* current period if it is present, else the period before it).
C27_CountIsRunFromCursor ==
    op = "getStreakCount" =>
        /\ ret.streak \in 0..Cardinality(completedDates)
        /\ ret.streak = ExpectedStreak(completedDates, frequency)

\* C24: immediately after the user has marked the current period complete
\* (toggleDate has added the current period's identifier), getStreakCount of
\* that habit is at least 1, for both cadences and every timezone offset: the
\* identifier stored is the first one the count looks up.
C24_MarkedPeriodCounts ==
    [][ToggleStep =>
           \A i \in 1..Len(streaks) :
               (/\ streaks[i].id = syncReq'.id
                /\ PeriodId(streaks[i].frequency, 0) \in
                       streaks'[i].completedDates \ streaks[i].completedDates)
                   => currentStreak(streaks'[i]) >= 1
      ]_vars

\* the local list holds the same habits, in the same order, as the list ss
SameHabits(ss) ==
    /\ Len(ss) = Len(streaks)
    /\ \A i \in 1..Len(ss) : ss[i].id = streaks[i].id

\* C25: when the add finishes while the list still holds the habits it held
\* when handleAddStreak began, whatever toggleDate did to them in the
\* meantime is kept: the add only prepends the new habit and leaves every
\* other habit as it currently is.
C25_AddOnlyPrepends ==
    [][(addTimer # NoReq /\ addTimer' = NoReq /\ SameHabits(addTimer.streaks)) =>
           /\ Len(streaks') = Len(streaks) + 1
           /\ \A i \in 1..Len(streaks) : streaks'[i + 1] = streaks[i]
      ]_vars

\* the adding of habits on its own, with every answer of the backend
\* arriving and every timer that was set firing; what the user does, and
\* when, is left open
AddNext ==
    \/ loadStreaks
    \/ \E outcome \in {"data", "error", "throw"} : loadStreaks_done(outcome)
    \/ \E v \in Names \cup {<<>>} : setInputValue(v)
    \/ \E f \in {"daily", "weekly"} : setFrequency(f)
    \/ handleAddStreak
    \/ \E outcome \in {"data", "error", "nodata", "throw"} : handleAddStreak_done(outcome)
    \/ handleAddStreak_timer

\* the steps of handleAddStreak_done and of handleAddStreak_timer, told by
\* the request and the timer they take away
InsertAnswered == addReq # NoReq /\ addReq' = NoReq
TimerFires == addTimer # NoReq /\ addTimer' = NoReq

AddLive ==
    /\ HabitInit
    /\ [][AddNext]_vars
    /\ WF_addReq(InsertAnswered)
    /\ WF_addTimer(TimerFires)

\* C26: every handleAddStreak attempt that sets isAdding to true eventually
\* sets it back to false, whether the insert succeeds, returns an error
\* object, returns no data or throws.
C26_AddingEnds == isAdding ~> ~isAdding

\* toggleDate's new set for a habit and an identifier
newDatesOf(streak, identifier) ==
    IF identifier \in streak.completedDates
    THEN streak.completedDates \ {identifier}
    ELSE streak.completedDates \cup {identifier}

\* the habit as toggleDate leaves it in the list
Toggled(streak, identifier) ==
    [streak EXCEPT !.completedDates = newDatesOf(streak, identifier)]

\* the i-th card is up to date: its enabled box is the current period's
CardIsCurrent(i) ==
    rendered.cards[i].currentIdentifier = PeriodId(streaks[i].frequency, 0)

\* C28: toggling the current period's identifier twice on a habit, with
\* nothing in between, restores the habit's completion set and its streak
\* count; and when the streak rested on the grace period with the value k
\* (current period absent, the one before present), it is k + 1 after the
\* current period has been marked complete.  Every toggle makes the set
\* newDatesOf gives.
C28_ToggleTwiceAndGrace ==
    /\ [](\A i \in 1..Len(rendered.cards) :
              CardIsCurrent(i) =>
                  LET id    == rendered.cards[i].currentIdentifier
                      once  == Toggled(streaks[i], id)
                      twice == Toggled(once, id)
                  IN  /\ twice = streaks[i]
                      /\ currentStreak(twice) = currentStreak(streaks[i])
                      /\ (/\ id \notin streaks[i].completedDates
                          /\ PeriodId(streaks[i].frequency, 1) \in streaks[i].completedDates)
                             => currentStreak(once) = currentStreak(streaks[i]) + 1)
    /\ [][ToggleStep =>
              \A i \in 1..Len(streaks) :
                  streaks[i].id = syncReq'.id =>
                      \E k \in 1..Len(rendered.cards[i].boxes) :
                          streaks'[i] = Toggled(streaks[i], rendered.cards[i].boxes[k])
         ]_vars

\* today has just been marked complete on a daily habit whose streak rested
\* on yesterday: the count went from 1 to 2, and a second toggle gives 1 again
C28_Witness ==
    /\ syncReq # NoReq
    /\ \E i \in 1..Len(rendered.cards) :
           /\ streaks[i].id = syncReq.id
           /\ CardIsCurrent(i)
           /\ PeriodId(streaks[i].frequency, 0) \in streaks[i].completedDates
           /\ PeriodId(streaks[i].frequency, 1) \in streaks[i].completedDates
           /\ currentStreak(streaks[i]) = 2
           /\ currentStreak(Toggled(streaks[i], PeriodId(streaks[i].frequency, 0))) = 1
====
